---- MODULE Spec2Model ----
(***************************************************************************)
(* TCP AHS congestion control (src/src/tcp_ahs.c): the per-connection      *)
(* private state struct ahs, the connection's window fields, and the       *)
(* seven callbacks of the tcp_congestion_ops table.                        *)
(*                                                                         *)
(* Integers: TLC's integers are 32-bit signed.  An s32 is written as an    *)
(* integer.  A u32 RTT field is written as a record [hi, lo] with          *)
(* value hi * 2^31 + lo, hi \in {0,1}, lo \in 0..2^31-1, so that the       *)
(* s32 -> u32 conversion of a negative sample and the unsigned comparison  *)
(* of min() are computed as the machine computes them.  The window fields  *)
(* (u32) only ever hold values below 2^31 here and are written as          *)
(* naturals.                                                               *)
(***************************************************************************)
EXTENDS Integers, FiniteSets

VARIABLES sk, inited, call, pre, samples, lastPos, overridden, stateClean,
          conns, pconns, alone, up, pcall

\* one connection and the history of its calls
oneVars == <<sk, inited, call, pre, samples, lastPos, overridden, stateClean>>

\* a table of connections, for the specification of two connections
pairVars == <<conns, pconns, alone, up, pcall>>

vars == <<oneVars, pairVars>>

-----------------------------------------------------------------------------
(* Program constants *)

TCP_AHS_INIT_RTT == 1000000

DEFAULT_AHS_WINDOW_SIZE == 65000

S32_MAX == 2147483647

(* Bounds of the model *)

\* the baseline's (and the host's) windows are 1..MaxVenoCwnd, and 65000
MaxVenoCwnd == 2

\* RTT samples of 1..MaxTinyRtt microseconds are among the samples
MaxTinyRtt == 1

-----------------------------------------------------------------------------
(* u32 arithmetic *)

U32Of(n) == [hi |-> 0, lo |-> n]

\* (u32) x for an s32 x: x mod 2^32
S32ToU32(x) ==
    IF x >= 0 THEN [hi |-> 0, lo |-> x]
              ELSE [hi |-> 1, lo |-> (x + S32_MAX) + 1]

U32Lt(a, b) == a.hi < b.hi \/ (a.hi = b.hi /\ a.lo < b.lo)

U32Le(a, b) == ~U32Lt(b, a)

\* a slip: the second argument is always taken (rtt_min = rtt)
min_takes_second(a, b) == b

\* the kernel's min(x, y): x < y ? x : y
min(a, b) == IF U32Lt(a, b) THEN a ELSE b

-----------------------------------------------------------------------------
(* Input domains *)

\* contents a u8 of the state slot can hold
U8Values == {0, 1, 255}

\* contents a u32 of a not yet initialised state slot can hold
U32Garbage == {U32Of(0), [hi |-> 1, lo |-> S32_MAX]}

PositiveSamples == (1..MaxTinyRtt) \cup {20000, 50000, S32_MAX}

\* s32 rtt_us: a sample <= 0 says "no valid sample"
RttSamples == {0 - S32_MAX - 1, -1, 0} \cup PositiveSamples

CwndValues == (1..MaxVenoCwnd) \cup {DEFAULT_AHS_WINDOW_SIZE}

SsthreshValues == {2, S32_MAX}

\* enum tcp_ca_state: TCP_CA_Open .. TCP_CA_Loss
CaStates == 0..4

\* enum tcp_ca_event: CA_EVENT_TX_START .. CA_EVENT_LOSS ...
CaEvents == 0..5

\* u32 counters handed through (cnt, ack, acked)
U32Args == {0, S32_MAX}

NoArgs == <<>>

-----------------------------------------------------------------------------
(* struct ahs, the misnamed field read by cong_avoid, and the tcp_sock      *)
(* window fields, as one record per connection.                            *)
(* ezs_en is the name tcp_ahs_cong_avoid reads (line 100); struct ahs      *)
(* declares no such member and no function of the file writes it, so it is *)
(* a location of its own whose contents nothing in this file determines.   *)

SockType ==
    [ahs_en : U8Values, if_cong : U8Values,
     rtt_min : U32Garbage \cup {S32ToU32(x) : x \in PositiveSamples \cup {TCP_AHS_INIT_RTT}},
     rtt : U32Garbage \cup {S32ToU32(x) : x \in PositiveSamples \cup {TCP_AHS_INIT_RTT}},
     ezs_en : U8Values,
     snd_cwnd : CwndValues, snd_ssthresh : SsthreshValues]

-----------------------------------------------------------------------------
(* The callbacks, as functions of the connection *)

\* a slip: the RTT fields are left as they were
tcp_ahs_init_no_rtt(s) == [s EXCEPT !.ahs_en = 1, !.if_cong = 0]

tcp_ahs_init(s) ==
    [s EXCEPT !.ahs_en = 1,
              !.if_cong = 0,
              !.rtt_min = U32Of(TCP_AHS_INIT_RTT),
              !.rtt = U32Of(TCP_AHS_INIT_RTT)]

\* a slip: the sample is stored without the test rtt_us > 0
tcp_ahs_pkts_acked_unchecked(s, cnt, rtt_us) ==
    LET s1 == [s EXCEPT !.rtt = S32ToU32(rtt_us)]
        s2 == [s1 EXCEPT !.rtt_min = min(s1.rtt_min, s1.rtt)]
    IN  [s2 EXCEPT !.snd_cwnd = DEFAULT_AHS_WINDOW_SIZE]

\* a slip: the minimum is not updated
tcp_ahs_pkts_acked_no_min(s, cnt, rtt_us) ==
    LET s1 == IF rtt_us > 0 THEN [s EXCEPT !.rtt = S32ToU32(rtt_us)] ELSE s
    IN  [s1 EXCEPT !.snd_cwnd = DEFAULT_AHS_WINDOW_SIZE]

tcp_ahs_pkts_acked(s, cnt, rtt_us) ==
    LET s1 == IF rtt_us > 0 THEN [s EXCEPT !.rtt = S32ToU32(rtt_us)] ELSE s
        s2 == [s1 EXCEPT !.rtt_min = min(s1.rtt_min, s1.rtt)]
    IN  [s2 EXCEPT !.snd_cwnd = DEFAULT_AHS_WINDOW_SIZE]

tcp_ahs_undo_cwnd(s) == DEFAULT_AHS_WINDOW_SIZE

\* a slip: AHS is enabled in the open state only
tcp_ahs_state_open_only(s, ca_state) ==
    [s EXCEPT !.ahs_en = IF ca_state = 0 THEN 1 ELSE s.ahs_en]

\* a slip: the state callback forces the window as the others do
tcp_ahs_state_sets_window(s, ca_state) ==
    [s EXCEPT !.ahs_en = 1, !.snd_cwnd = DEFAULT_AHS_WINDOW_SIZE]

tcp_ahs_state(s, ca_state) == [s EXCEPT !.ahs_en = 1]

\* a slip: a loss event disables AHS
tcp_ahs_cwnd_event_disables(s, event) ==
    [s EXCEPT !.snd_cwnd = DEFAULT_AHS_WINDOW_SIZE,
              !.ahs_en = IF event = 5 THEN 0 ELSE s.ahs_en]

\* a slip: the window is forced only while AHS is enabled
tcp_ahs_cwnd_event_if_enabled(s, event) ==
    IF s.ahs_en = 0 THEN s ELSE [s EXCEPT !.snd_cwnd = DEFAULT_AHS_WINDOW_SIZE]

\* a slip: a loss event is recorded in if_cong
tcp_ahs_cwnd_event_marks_cong(s, event) ==
    [s EXCEPT !.snd_cwnd = DEFAULT_AHS_WINDOW_SIZE,
              !.if_cong = IF event = 5 THEN 1 ELSE s.if_cong]

tcp_ahs_cwnd_event(s, event) == [s EXCEPT !.snd_cwnd = DEFAULT_AHS_WINDOW_SIZE]

\* the baseline, external to the file: it leaves a window of its own choosing
\* (w) and is taken to write no field of struct ahs
tcp_veno_cong_avoid(s, ack, acked, w) == [s EXCEPT !.snd_cwnd = w]

\* the test of line 100
ahs_not_enabled(s) == s.ezs_en = 0

tcp_ahs_cong_avoid(s, ack, acked, w) ==
    IF ahs_not_enabled(s)
    THEN tcp_veno_cong_avoid(s, ack, acked, w)
    ELSE [s EXCEPT !.snd_cwnd = DEFAULT_AHS_WINDOW_SIZE]

\* a slip: the current window is reported
tcp_ahs_ssthresh_cwnd(s) == s.snd_cwnd

tcp_ahs_ssthresh(s) == DEFAULT_AHS_WINDOW_SIZE

-----------------------------------------------------------------------------
(* The state machine: the host calls the callbacks one at a time.          *)
(* call is the last call (op, args, returned value, branch taken), pre the *)
(* connection as it was when that call began.  samples, lastPos,           *)
(* overridden and stateClean record the history the properties speak of.   *)

\* what a void callback returns
NoRet == "void"

Called(op, args, ret, branch) ==
    [op |-> op, args |-> args, ret |-> ret, branch |-> branch]

\* the table of connections is not in use
PairIdle ==
    /\ conns = <<>>
    /\ pconns = <<>>
    /\ alone = <<>>
    /\ up = {}
    /\ pcall = [c |-> 0, op |-> "none", ret |-> NoRet]

Init ==
    /\ sk \in SockType
    /\ sk.rtt_min \in U32Garbage
    /\ sk.rtt \in U32Garbage
    /\ inited = FALSE
    /\ call = Called("none", NoArgs, NoRet, "none")
    /\ pre = sk
    /\ samples = {}
    /\ lastPos = TCP_AHS_INIT_RTT
    /\ overridden = FALSE
    /\ stateClean = FALSE
    /\ PairIdle

on_init ==
    /\ sk' = tcp_ahs_init(sk)
    /\ pre' = sk
    /\ inited' = TRUE
    /\ call' = Called("init", NoArgs, NoRet, "none")
    /\ samples' = {}
    /\ lastPos' = TCP_AHS_INIT_RTT
    /\ overridden' = FALSE
    /\ UNCHANGED stateClean

\* a slip: BUG_ON(rtt_us < 0), the call does not complete on a negative sample
pkts_acked_with_bug_on_negative(cnt, rtt_us) ==
    /\ inited
    /\ rtt_us >= 0
    /\ sk' = tcp_ahs_pkts_acked(sk, cnt, rtt_us)
    /\ call' = Called("pkts_acked", <<cnt, rtt_us>>, NoRet, "none")
    /\ samples' = IF rtt_us > 0 THEN samples \cup {rtt_us} ELSE samples
    /\ lastPos' = IF rtt_us > 0 THEN rtt_us ELSE lastPos
    /\ pre' = sk
    /\ UNCHANGED <<inited, overridden, stateClean>>

pkts_acked_with(cnt, rtt_us) ==
    /\ inited
    /\ sk' = tcp_ahs_pkts_acked(sk, cnt, rtt_us)
    /\ call' = Called("pkts_acked", <<cnt, rtt_us>>, NoRet, "none")
    /\ samples' = IF rtt_us > 0 THEN samples \cup {rtt_us} ELSE samples
    /\ lastPos' = IF rtt_us > 0 THEN rtt_us ELSE lastPos
    /\ pre' = sk
    /\ UNCHANGED <<inited, overridden, stateClean>>

on_ack_with_rtt ==
    \E cnt \in U32Args, rtt_us \in RttSamples : pkts_acked_with(cnt, rtt_us)

undo_cwnd ==
    /\ sk' = sk
    /\ pre' = sk
    /\ call' = Called("undo_cwnd", NoArgs, tcp_ahs_undo_cwnd(sk), "none")
    /\ UNCHANGED <<inited, samples, lastPos, overridden, stateClean>>

set_state_with(ca_state) ==
    /\ inited
    /\ sk' = tcp_ahs_state(sk, ca_state)
    /\ call' = Called("set_state", <<ca_state>>, NoRet, "none")
    /\ pre' = sk
    /\ stateClean' = TRUE
    /\ UNCHANGED <<inited, samples, lastPos, overridden>>

on_state_transition ==
    \E ca_state \in CaStates : set_state_with(ca_state)

cwnd_event_with(event) ==
    /\ inited
    /\ sk' = tcp_ahs_cwnd_event(sk, event)
    /\ call' = Called("cwnd_event", <<event>>, NoRet, "none")
    /\ pre' = sk
    /\ UNCHANGED <<inited, samples, lastPos, overridden, stateClean>>

on_cwnd_event ==
    \E event \in CaEvents : cwnd_event_with(event)

cong_avoid_with(ack, acked) ==
    /\ inited
    /\ \E w \in CwndValues :
         /\ sk' = tcp_ahs_cong_avoid(sk, ack, acked, w)
         \* the baseline's window is an outcome of the baseline branch only
         /\ ahs_not_enabled(sk) \/ w = DEFAULT_AHS_WINDOW_SIZE
    /\ call' = Called("cong_avoid", <<ack, acked>>, NoRet,
                      IF ahs_not_enabled(sk) THEN "veno" ELSE "ahs")
    /\ pre' = sk
    /\ UNCHANGED <<inited, samples, lastPos, overridden, stateClean>>

cong_avoid ==
    \E ack \in U32Args, acked \in U32Args : cong_avoid_with(ack, acked)

ssthresh ==
    /\ sk' = sk
    /\ pre' = sk
    /\ call' = Called("ssthresh", NoArgs, tcp_ahs_ssthresh(sk), "none")
    /\ UNCHANGED <<inited, samples, lastPos, overridden, stateClean>>

\* the host (a test harness) clears the enable flag of the state slot
HostOverride ==
    /\ inited
    /\ sk' = [sk EXCEPT !.ahs_en = 0]
    /\ pre' = sk
    /\ call' = Called("host_override", NoArgs, NoRet, "none")
    /\ overridden' = TRUE
    /\ stateClean' = FALSE
    /\ UNCHANGED <<inited, samples, lastPos>>

Next ==
    \/ on_init /\ UNCHANGED pairVars
    \/ on_ack_with_rtt /\ UNCHANGED pairVars
    \/ undo_cwnd /\ UNCHANGED pairVars
    \/ on_state_transition /\ UNCHANGED pairVars
    \/ on_cwnd_event /\ UNCHANGED pairVars
    \/ cong_avoid /\ UNCHANGED pairVars
    \/ ssthresh /\ UNCHANGED pairVars
    \/ HostOverride /\ UNCHANGED pairVars

Spec == Init /\ [][Next]_vars

-----------------------------------------------------------------------------
(* Two connections.  Each callback reaches its state through the sock it   *)
(* is handed (inet_csk_ca(sk), tcp_sk(sk)); the file has no other mutable  *)
(* state.  conns is the table of connections, pconns the table as it was   *)
(* when the last call began, pcall that call, up the connections that were *)
(* initialised, and alone[c] what connection c would hold had only its own *)
(* calls run.                                                              *)

Conns == {1, 2}

\* samples handed to the two connections
PairSamples == {-1, 20000, 50000}

\* the slots of the two connections before tcp_ahs_init
PairSockInit ==
    {s \in SockType :
        /\ s.ahs_en = 0 /\ s.if_cong = 255
        /\ s.rtt_min = U32Of(0) /\ s.rtt = U32Of(0)
        /\ s.snd_cwnd = 1 /\ s.snd_ssthresh = 2}

\* a slip: struct ahs is one static object, shared by all connections
OnSockStatic(table, c, new) ==
    [d \in DOMAIN table |->
        IF d = c THEN new
        ELSE [table[d] EXCEPT !.ahs_en = new.ahs_en, !.if_cong = new.if_cong,
                              !.rtt_min = new.rtt_min, !.rtt = new.rtt]]

\* the callback's writes land in the connection it was called on
OnSock(table, c, new) == [table EXCEPT ![c] = new]

PairCalled(c, op, ret) == [c |-> c, op |-> op, ret |-> ret]

\* the single connection of Spec is not in use
OneIdle ==
    /\ sk = [ahs_en |-> 0, if_cong |-> 0, rtt_min |-> U32Of(0), rtt |-> U32Of(0),
             ezs_en |-> 0, snd_cwnd |-> 1, snd_ssthresh |-> 2]
    /\ inited = FALSE
    /\ call = Called("none", NoArgs, NoRet, "none")
    /\ pre = sk
    /\ samples = {}
    /\ lastPos = TCP_AHS_INIT_RTT
    /\ overridden = FALSE
    /\ stateClean = FALSE

InitTwo ==
    /\ OneIdle
    /\ conns \in [Conns -> PairSockInit]
    /\ pconns = conns
    /\ alone = conns
    /\ up = {}
    /\ pcall = PairCalled(0, "none", NoRet)

\* connection c runs callback op, which returns ret and leaves it as new
PairStep(c, op, ret, new, newAlone) ==
    /\ conns' = OnSock(conns, c, new)
    /\ pconns' = conns
    /\ alone' = [alone EXCEPT ![c] = newAlone]
    /\ pcall' = PairCalled(c, op, ret)
    /\ UNCHANGED oneVars

pair_init ==
    \E c \in Conns :
        /\ PairStep(c, "init", NoRet, tcp_ahs_init(conns[c]), tcp_ahs_init(alone[c]))
        /\ up' = up \cup {c}

pair_pkts_acked ==
    \E c \in up, cnt \in U32Args, rtt_us \in PairSamples :
        /\ PairStep(c, "pkts_acked", NoRet,
                    tcp_ahs_pkts_acked(conns[c], cnt, rtt_us),
                    tcp_ahs_pkts_acked(alone[c], cnt, rtt_us))
        /\ UNCHANGED up

pair_undo_cwnd ==
    \E c \in Conns :
        /\ PairStep(c, "undo_cwnd", tcp_ahs_undo_cwnd(conns[c]), conns[c], alone[c])
        /\ UNCHANGED up

pair_state ==
    \E c \in up, ca_state \in CaStates :
        /\ PairStep(c, "set_state", NoRet,
                    tcp_ahs_state(conns[c], ca_state),
                    tcp_ahs_state(alone[c], ca_state))
        /\ UNCHANGED up

pair_cwnd_event ==
    \E c \in up, event \in CaEvents :
        /\ PairStep(c, "cwnd_event", NoRet,
                    tcp_ahs_cwnd_event(conns[c], event),
                    tcp_ahs_cwnd_event(alone[c], event))
        /\ UNCHANGED up

pair_cong_avoid ==
    \E c \in up, ack \in U32Args, acked \in U32Args, w \in CwndValues :
        /\ PairStep(c, "cong_avoid", NoRet,
                    tcp_ahs_cong_avoid(conns[c], ack, acked, w),
                    tcp_ahs_cong_avoid(alone[c], ack, acked, w))
        /\ UNCHANGED up

pair_ssthresh ==
    \E c \in Conns :
        /\ PairStep(c, "ssthresh", tcp_ahs_ssthresh(conns[c]), conns[c], alone[c])
        /\ UNCHANGED up

NextTwo ==
    \/ pair_init
    \/ pair_pkts_acked
    \/ pair_undo_cwnd
    \/ pair_state
    \/ pair_cwnd_event
    \/ pair_cong_avoid
    \/ pair_ssthresh

SpecTwo == InitTwo /\ [][NextTwo]_vars

-----------------------------------------------------------------------------
(* Properties *)

WindowSetters == {"pkts_acked", "cwnd_event", "cong_avoid"}

MinOf(S) == CHOOSE x \in S : \A y \in S : x <= y

\* C1 (as stated): every pkts_acked, cwnd_event or cong_avoid call made
\* while ahs_en, the flag tcp_ahs_init and tcp_ahs_state write, is set
\* leaves snd_cwnd = 65000.
C1_WindowForcedWhileEnabled ==
    (call.op \in WindowSetters /\ pre.ahs_en # 0)
        => sk.snd_cwnd = DEFAULT_AHS_WINDOW_SIZE

\* C2 (as stated): cong_avoid takes the baseline branch exactly when
\* ahs_en was cleared, and in that branch the window is the baseline's.
C2_DelegatesIffDisabled ==
    call.op = "cong_avoid"
        => /\ (call.branch = "veno") <=> (pre.ahs_en = 0)
           /\ pre.ahs_en # 0 => sk.snd_cwnd = DEFAULT_AHS_WINDOW_SIZE

\* C3: after init, rtt_min is the minimum of TCP_AHS_INIT_RTT and every
\* strictly positive sample passed since; samples <= 0 never contribute.
C3_MinRttIsRunningMin ==
    inited => sk.rtt_min = U32Of(MinOf(samples \cup {TCP_AHS_INIT_RTT}))

\* init, ack(50000), ack(20000), ..., ack(negative): the minimum is 20000
C3_Witness ==
    /\ call.op = "pkts_acked"
    /\ call.args[2] < 0
    /\ {20000, 50000} \subseteq samples
    /\ 1 \notin samples
    /\ sk.rtt_min = U32Of(20000)

\* C4: ssthresh and undo_cwnd return 65000 in every connection state,
\* before init too, and change no field of the connection.
C4_ThresholdQueriesPure ==
    call.op \in {"ssthresh", "undo_cwnd"}
        => call.ret = 65000 /\ sk = pre

\* ssthresh on a slot that was never initialised
C4_Witness ==
    /\ call.op = "ssthresh"
    /\ ~inited
    /\ sk.ahs_en = 0
    /\ sk.snd_cwnd # DEFAULT_AHS_WINDOW_SIZE

\* C5: right after init, whatever the slot held: ahs_en = 1, if_cong = 0,
\* rtt_min = rtt = 1000000 us; the window fields are not written.
C5_InitPostcondition ==
    call.op = "init"
        => /\ sk.ahs_en = 1
           /\ sk.if_cong = 0
           /\ sk.rtt_min = U32Of(1000000)
           /\ sk.rtt = U32Of(1000000)
           /\ sk.snd_cwnd = pre.snd_cwnd
           /\ sk.snd_ssthresh = pre.snd_ssthresh

\* init over a slot holding something else in every field
C5_Witness ==
    /\ call.op = "init"
    /\ pre.ahs_en = 0
    /\ pre.if_cong = 255
    /\ pre.rtt.hi = 1
    /\ pre.rtt_min = U32Of(0)
    /\ sk.snd_cwnd # DEFAULT_AHS_WINDOW_SIZE

\* C6: after any set_state call, whatever the phase and the flag before,
\* ahs_en is set.
C6_StateTransitionEnables ==
    call.op = "set_state" => sk.ahs_en = 1

\* set_state(TCP_CA_Loss) on a connection whose flag the host had cleared
C6_Witness ==
    /\ call.op = "set_state"
    /\ call.args[1] = 4
    /\ pre.ahs_en = 0

\* C7: a pkts_acked call with a sample <= 0 leaves rtt as it was, one with
\* a sample > 0 leaves rtt = sample; so after init rtt is the most recent
\* strictly positive sample, or TCP_AHS_INIT_RTT if there was none.
C7_LastRtt ==
    /\ call.op = "pkts_acked"
           => sk.rtt = IF call.args[2] > 0 THEN U32Of(call.args[2]) ELSE pre.rtt
    /\ inited => sk.rtt = U32Of(lastPos)

\* a negative sample after positive ones: rtt keeps the last positive one
C7_Witness ==
    /\ call.op = "pkts_acked"
    /\ call.args[2] = -1
    /\ 50000 \in samples
    /\ lastPos = 20000
    /\ sk.rtt = U32Of(20000)

\* C8: in every state from init on, rtt_min <= rtt.
C8_MinLeLast ==
    inited => U32Le(sk.rtt_min, sk.rtt)

\* a later positive sample larger than an earlier one
C8_Witness ==
    /\ inited
    /\ sk.rtt = U32Of(S32_MAX)
    /\ sk.rtt_min = U32Of(20000)

\* C9: no callback clears ahs_en, and with no host override since init
\* ahs_en is set in every state.
C9_NeverDisabled ==
    /\ (inited /\ ~overridden) => sk.ahs_en = 1
    /\ call.op \notin {"none", "host_override"}
           => (sk.ahs_en = 0 => pre.ahs_en = 0)

\* the flag is still set after every kind of callback has run
C9_Witness ==
    /\ inited
    /\ ~overridden
    /\ stateClean
    /\ call.op = "cwnd_event"
    /\ call.args[1] = 5
    /\ samples # {}
    /\ sk.ahs_en = 1

\* C10 (as stated): once set_state has been called and no host override
\* followed it, every cong_avoid call takes the AHS branch and leaves
\* snd_cwnd = 65000.
C10_NoFallbackAfterStateTransition ==
    (call.op = "cong_avoid" /\ stateClean)
        => call.branch = "ahs" /\ sk.snd_cwnd = DEFAULT_AHS_WINDOW_SIZE

\* C11: rtt_min never grows: every call other than init leaves
\* rtt_min <= its value before the call, and only pkts_acked changes it.
C11_MinRttNonIncreasing ==
    call.op \notin {"none", "init"}
        => /\ U32Le(sk.rtt_min, pre.rtt_min)
           /\ sk.rtt_min # pre.rtt_min => call.op = "pkts_acked"

\* a sample larger than the minimum arrives after a smaller one lowered it
C11_Witness ==
    /\ call.op = "pkts_acked"
    /\ call.args[2] = 50000
    /\ pre.rtt_min = U32Of(20000)
    /\ sk.rtt_min = U32Of(20000)
    /\ sk.rtt = U32Of(50000)

\* C12: pkts_acked and cwnd_event leave snd_cwnd = 65000 whatever ahs_en
\* is, for every event kind and every sample, valid or not.
C12_AckAndEventForceWindow ==
    call.op \in {"pkts_acked", "cwnd_event"}
        => sk.snd_cwnd = DEFAULT_AHS_WINDOW_SIZE

\* ahs_en cleared by the host, a window of 1 left by the baseline after an
\* earlier ack had forced 65000, then a cwnd_event
C12_Witness ==
    /\ call.op = "cwnd_event"
    /\ pre.ahs_en = 0
    /\ samples # {}
    /\ pre.snd_cwnd = 1
    /\ sk.snd_cwnd = DEFAULT_AHS_WINDOW_SIZE

FrameExcept(fields) ==
    \A f \in DOMAIN sk : f \notin fields => sk[f] = pre[f]

\* C13: cwnd_event writes snd_cwnd only, set_state ahs_en only, cong_avoid
\* in its AHS branch snd_cwnd only, pkts_acked rtt, rtt_min and snd_cwnd
\* only; no callback writes snd_ssthresh.
C13_WriteSets ==
    /\ call.op = "cwnd_event" => FrameExcept({"snd_cwnd"})
    /\ call.op = "set_state" => FrameExcept({"ahs_en"})
    /\ (call.op = "cong_avoid" /\ call.branch = "ahs") => FrameExcept({"snd_cwnd"})
    /\ call.op = "pkts_acked" => FrameExcept({"rtt", "rtt_min", "snd_cwnd"})
    /\ call.op # "none" => sk.snd_ssthresh = pre.snd_ssthresh

\* set_state re-enables a connection and leaves a small window as it is
C13_Witness ==
    /\ call.op = "set_state"
    /\ pre.ahs_en = 0
    /\ sk.ahs_en = 1
    /\ sk.snd_cwnd = 1
    /\ sk.rtt_min = U32Of(20000)

WithCong(s, v) == [s EXCEPT !.if_cong = v]

\* the outcome of every callback is the same for every value of if_cong
IfCongIgnored ==
    \A v \in U8Values \ {sk.if_cong} :
        /\ tcp_ahs_init(WithCong(sk, v)) = tcp_ahs_init(sk)
        /\ \A cnt \in U32Args, rtt_us \in RttSamples :
               tcp_ahs_pkts_acked(WithCong(sk, v), cnt, rtt_us)
                   = WithCong(tcp_ahs_pkts_acked(sk, cnt, rtt_us), v)
        /\ \A ca_state \in CaStates :
               tcp_ahs_state(WithCong(sk, v), ca_state)
                   = WithCong(tcp_ahs_state(sk, ca_state), v)
        /\ \A event \in CaEvents :
               tcp_ahs_cwnd_event(WithCong(sk, v), event)
                   = WithCong(tcp_ahs_cwnd_event(sk, event), v)
        /\ ahs_not_enabled(WithCong(sk, v)) = ahs_not_enabled(sk)
        /\ \A ack \in U32Args, acked \in U32Args, w \in CwndValues :
               tcp_ahs_cong_avoid(WithCong(sk, v), ack, acked, w)
                   = WithCong(tcp_ahs_cong_avoid(sk, ack, acked, w), v)
        /\ tcp_ahs_ssthresh(WithCong(sk, v)) = tcp_ahs_ssthresh(sk)
        /\ tcp_ahs_undo_cwnd(WithCong(sk, v)) = tcp_ahs_undo_cwnd(sk)

\* C14: if_cong is written by init only: it is 0 in every state from init
\* on, no other call changes it, and no callback's outcome depends on it.
C14_IfCongUnused ==
    /\ inited => sk.if_cong = 0
    /\ call.op \notin {"none", "init"} => sk.if_cong = pre.if_cong
    /\ IfCongIgnored

\* a loss event, after init and a host override of ahs_en
C14_Witness ==
    /\ inited
    /\ call.op = "cwnd_event"
    /\ call.args[1] = 5
    /\ sk.if_cong = 0
    /\ overridden

\* C17 (as stated): with no host override since init, a window of 65000
\* stays 65000 across every call, and every pkts_acked, cwnd_event and
\* cong_avoid call leaves it 65000.
C17_WindowStable ==
    (call.op # "none" /\ ~overridden)
        => ((pre.snd_cwnd = DEFAULT_AHS_WINDOW_SIZE \/ call.op \in WindowSetters)
               => sk.snd_cwnd = DEFAULT_AHS_WINDOW_SIZE)

\* the call completes and leaves a well-formed connection
Completes(A) == ENABLED (A /\ sk' \in SockType)

\* C16: from init on, every callback is callable in every state with every
\* argument value (any phase, event kind, count and signed sample, zero,
\* negative and largest included) and completes in one step with a defined
\* successor: no call is blocked and none fails.
C16_HandlersTotal ==
    inited =>
        /\ Completes(on_init)
        /\ \A cnt \in U32Args, rtt_us \in RttSamples :
               Completes(pkts_acked_with(cnt, rtt_us))
        /\ Completes(undo_cwnd)
        /\ \A ca_state \in CaStates : Completes(set_state_with(ca_state))
        /\ \A event \in CaEvents : Completes(cwnd_event_with(event))
        /\ \A ack \in U32Args, acked \in U32Args :
               Completes(cong_avoid_with(ack, acked))
        /\ Completes(ssthresh)

\* the most negative and the largest sample have both been accepted
C16_Witness ==
    /\ call.op = "pkts_acked"
    /\ call.args = <<S32_MAX, 0 - S32_MAX - 1>>
    /\ S32_MAX \in samples
    /\ sk.rtt = U32Of(S32_MAX)
    /\ sk \in SockType

\* C15: with two connections and any interleaving of their calls, a call
\* on one connection leaves the other connection's state and window
\* fields as they were, so each connection holds what it would hold had
\* its own calls run alone.
C15_ConnectionsIndependent ==
    /\ \A d \in Conns : d # pcall.c => conns[d] = pconns[d]
    /\ \A c \in Conns : conns[c] = alone[c]

\* both connections are in use and have gone different ways; the last call
\* was an ack on connection 1 while connection 2 held a baseline window
C15_Witness ==
    /\ up = Conns
    /\ pcall.c = 1
    /\ pcall.op = "pkts_acked"
    /\ pconns[1].rtt_min = U32Of(TCP_AHS_INIT_RTT)
    /\ conns[1].rtt_min = U32Of(20000)
    /\ conns[1].snd_cwnd = DEFAULT_AHS_WINDOW_SIZE
    /\ conns[2].rtt = U32Of(50000)
    /\ conns[2].snd_cwnd = 2

====
